---- MODULE Spec2Model ----
(***************************************************************************)
(* Positional linked lists of ads-js: SinglyLinkedList and                 *)
(* DoublyLinkedList (src/src/lists).  Nodes live in one heap; a list owns  *)
(* head, tail and size; a Position is a (container, node) pair handed to   *)
(* the caller by every operation that returns one.                         *)
(***************************************************************************)
EXTENDS Integers, Sequences, FiniteSets, TLC

\* Number of Node objects that may be allocated in one run (heap size).
MaxNodes == 3
\* Longest array handed to a list constructor.
MaxArr == 2

NIL == 0
Nodes == 1..MaxNodes
\* Element values stored in the lists; NoElem marks a node not yet allocated.
Elems == {"a", "b"}
NoElem == "none"

\* The list instances.
SinglyLists == {"S"}
DoublyLists == {"D"}
Lists == SinglyLists \cup DoublyLists

\* The absent value (undefined) where a Position is expected.
NoPos == [container |-> "none", node |-> NIL]

VARIABLES
  element,   \* element[n]: Node.element, NoElem until node n is allocated
  next,      \* next[n]:    Node.next, NIL when absent
  prev,      \* prev[n]:    Node.prev (doubly linked nodes), NIL when absent
  head,      \* head[l]:    the list's head node, NIL when absent
  tail,      \* tail[l]:    the list's tail node, NIL when absent
  size,      \* size[l]:    the list's size counter
  held,      \* Positions the caller obtained so far
  result,    \* the last call: method, list, outcome, returned element
  removed,   \* nodes removed by removeFirst / removeLast / delete
  walked,    \* nodes reachable from head when clear(false) ran
  orphaned,  \* positions obtained from a list before its clear(true)
  iterator,  \* the generator made by a list's [Symbol.iterator]()
  quickSelect, \* the running or last call of quickSelect: arguments, locals
  tree,        \* the binary tree: root, size and the nodes' fields
  generalTree, \* the general tree: root, size and the nodes' fields
  treeCall     \* the last call on a tree and its callback invocations

heap == <<element, next, prev, head, tail, size>>
hist == <<removed, walked, orphaned>>
\* What the list methods never touch.
trees == <<tree, generalTree, treeCall>>
rest == <<iterator, quickSelect, trees>>
vars == <<element, next, prev, head, tail, size, held, result,
          removed, walked, orphaned, iterator, quickSelect,
          tree, generalTree, treeCall>>

----------------------------------------------------------------------------
\* Heap helpers

Allocated == {n \in Nodes : element[n] # NoElem}
HasFree == Allocated # Nodes
\* new Node(...): the next unused heap cell
NewNode == CHOOSE n \in Nodes : element[n] = NoElem
                                /\ \A m \in Nodes : m < n => element[m] # NoElem

\* The nodes met from n by following link f, for at most k steps.
RECURSIVE Walk(_, _, _)
Walk(f, n, k) ==
  IF n = NIL \/ k = 0 THEN <<>> ELSE <<n>> \o Walk(f, f[n], k - 1)

\* The chain of nodes from the list's head along next.
Chain(l) == Walk(next, head[l], MaxNodes + 1)
\* The walk from head ends (reaches an absent next).
Terminates(l) == Len(Chain(l)) <= MaxNodes
ChainSet(l) == {Chain(l)[i] : i \in 1..Len(Chain(l))}

\* Result of the last call.
NoResult == [op |-> "new", list |-> "none", arr |-> <<>>,
             status |-> "ok", val |-> NoElem]

Call(op, l) == [NoResult EXCEPT !.op = op, !.list = l]

\* No iteration was started.
NoIterator == [list |-> "none", node |-> NIL, state |-> "none", yields |-> 0]

----------------------------------------------------------------------------
\* Position plumbing (PositionalListAbstract)

createPosition(l, n) == [container |-> l, node |-> n]

SinglyIsDeprecated(n) == next[n] = n

DoublyIsDeprecated(n) == next[n] = n

isDeprecated(l, n) ==
  IF l \in SinglyLists THEN SinglyIsDeprecated(n) ELSE DoublyIsDeprecated(n)

\* validate(position) returns the node, or throws; TRUE when it returns.
validate(l, p) == p.container = l /\ ~isDeprecated(l, p.node)

\* The list objects and the caller's positions as one value, so that a
\* method can be applied several times in a row (the constructors' loops).
State == [element |-> element, next |-> next, prev |-> prev,
          head |-> head, tail |-> tail, size |-> size, held |-> held]

Becomes(s) ==
  /\ element' = s.element /\ next' = s.next /\ prev' = s.prev
  /\ head' = s.head /\ tail' = s.tail /\ size' = s.size /\ held' = s.held

FreeIn(s) == {n \in Nodes : s.element[n] = NoElem}
NewNodeIn(s) == CHOOSE n \in FreeIn(s) : \A m \in FreeIn(s) : n <= m

\* A call that throws: nothing but the outcome is recorded.
Throws(op, l, kind) ==
  /\ result' = [Call(op, l) EXCEPT !.status = kind]
  /\ UNCHANGED <<heap, held, hist>>

PositionsIn(l) == {p \in held : p.container = l}

----------------------------------------------------------------------------
\* SinglyLinkedList

\* Mutant: addAfter counts the element before it validates the position.
SinglyAddAfter_CountsFirst(l, p, e) ==
  IF ~validate(l, p)
  THEN /\ size' = [size EXCEPT ![l] = @ + 1]
       /\ result' = [Call("addAfter", l) EXCEPT !.status = "InvalidPosition"]
       /\ UNCHANGED <<element, next, prev, head, tail, held, hist>>
  ELSE LET node == p.node
           n == NewNode
       IN /\ HasFree
          /\ element' = [element EXCEPT ![n] = e]
          /\ next' = [next EXCEPT ![n] = next[node], ![node] = n]
          /\ tail' = IF node = tail[l] THEN [tail EXCEPT ![l] = n] ELSE tail
          /\ size' = [size EXCEPT ![l] = @ + 1]
          /\ held' = held \cup {createPosition(l, n)}
          /\ result' = Call("addAfter", l)
          /\ UNCHANGED <<prev, head, hist>>

\* Mutant: addAfter never moves tail.
SinglyAddAfter_KeepsTail(l, p, e) ==
  IF ~validate(l, p) THEN Throws("addAfter", l, "InvalidPosition")
  ELSE LET node == p.node
           n == NewNode
       IN /\ HasFree
          /\ element' = [element EXCEPT ![n] = e]
          /\ next' = [next EXCEPT ![n] = next[node], ![node] = n]
          /\ size' = [size EXCEPT ![l] = @ + 1]
          /\ held' = held \cup {createPosition(l, n)}
          /\ result' = Call("addAfter", l)
          /\ UNCHANGED <<prev, head, tail, hist>>

SinglyAddAfter(l, p, e) ==
  IF ~validate(l, p) THEN Throws("addAfter", l, "InvalidPosition")
  ELSE LET node == p.node
           n == NewNode
       IN /\ HasFree
          /\ element' = [element EXCEPT ![n] = e]
          /\ next' = [next EXCEPT ![n] = next[node], ![node] = n]
          /\ tail' = IF node = tail[l] THEN [tail EXCEPT ![l] = n] ELSE tail
          /\ size' = [size EXCEPT ![l] = @ + 1]
          /\ held' = held \cup {createPosition(l, n)}
          /\ result' = Call("addAfter", l)
          /\ UNCHANGED <<prev, head, hist>>

SinglyAddFirst(l, e) ==
  LET n == NewNode
  IN /\ HasFree
     /\ element' = [element EXCEPT ![n] = e]
     /\ IF head[l] = NIL
        THEN /\ next' = [next EXCEPT ![n] = NIL]
             /\ tail' = [tail EXCEPT ![l] = n]
        ELSE /\ next' = [next EXCEPT ![n] = head[l]]
             /\ tail' = tail
     /\ head' = [head EXCEPT ![l] = n]
     /\ size' = [size EXCEPT ![l] = @ + 1]
     /\ held' = held \cup {createPosition(l, n)}
     /\ result' = Call("addFirst", l)
     /\ UNCHANGED <<prev, hist>>

\* addLast as a function of the state it runs in.
SinglyAddLastOn(s, l, e) ==
  LET n == NewNodeIn(s)
  IN [s EXCEPT
        !.element = [s.element EXCEPT ![n] = e],
        !.next = IF s.tail[l] = NIL
                 THEN [s.next EXCEPT ![n] = NIL]
                 ELSE [s.next EXCEPT ![n] = NIL, ![s.tail[l]] = n],
        !.head = IF s.tail[l] = NIL THEN [s.head EXCEPT ![l] = n] ELSE s.head,
        !.tail = [s.tail EXCEPT ![l] = n],
        !.size = [s.size EXCEPT ![l] = @ + 1],
        !.held = s.held \cup {createPosition(l, n)}]

SinglyAddLast(l, e) ==
  /\ HasFree
  /\ Becomes(SinglyAddLastOn(State, l, e))
  /\ result' = Call("addLast", l)
  /\ UNCHANGED hist

RECURSIVE SinglyAddAll(_, _, _)
SinglyAddAll(s, l, arr) ==
  IF arr = <<>> THEN s
  ELSE SinglyAddAll(SinglyAddLastOn(s, l, Head(arr)), l, Tail(arr))

\* new SinglyLinkedList(arr): the first thing that happens to instance l.
SinglyConstruct(l, arr) ==
  /\ PositionsIn(l) = {}
  /\ Len(arr) <= Cardinality(Nodes \ Allocated)
  /\ Becomes(SinglyAddAll(State, l, arr))
  /\ result' = [Call("construct", l) EXCEPT !.arr = arr]
  /\ UNCHANGED hist

\* Mutant: clear(false) deprecates the head node only.
SinglyClear_HeadOnly(l, instant) ==
  /\ Terminates(l)
  /\ next' = IF ~instant /\ head[l] # NIL
             THEN [next EXCEPT ![head[l]] = head[l]]
             ELSE next
  /\ tail' = [tail EXCEPT ![l] = NIL]
  /\ head' = [head EXCEPT ![l] = NIL]
  /\ size' = [size EXCEPT ![l] = 0]
  /\ result' = Call(IF instant THEN "clearInstant" ELSE "clear", l)
  /\ walked' = IF instant \/ head[l] = NIL THEN walked
                ELSE walked \cup ChainSet(l)
  /\ orphaned' = IF instant THEN orphaned \cup PositionsIn(l) ELSE orphaned
  /\ UNCHANGED <<element, prev, held, removed>>

SinglyClear(l, instant) ==
  /\ Terminates(l)
  /\ next' = IF ~instant /\ head[l] # NIL
             THEN [n \in Nodes |-> IF n \in ChainSet(l) THEN n ELSE next[n]]
             ELSE next
  /\ tail' = [tail EXCEPT ![l] = NIL]
  /\ head' = [head EXCEPT ![l] = NIL]
  /\ size' = [size EXCEPT ![l] = 0]
  /\ result' = Call(IF instant THEN "clearInstant" ELSE "clear", l)
  /\ walked' = IF instant \/ head[l] = NIL THEN walked
                ELSE walked \cup ChainSet(l)
  /\ orphaned' = IF instant THEN orphaned \cup PositionsIn(l) ELSE orphaned
  /\ UNCHANGED <<element, prev, held, removed>>

\* The read-only methods change nothing: each is the value it returns;
\* status InvalidPosition stands for the ADSError thrown by validate.
SinglyGetAfter(l, p) ==
  IF ~validate(l, p) THEN [status |-> "InvalidPosition", ret |-> NoPos]
  ELSE LET nxt == next[p.node]
       IN [status |-> "ok",
           ret |-> IF nxt # NIL THEN createPosition(l, nxt) ELSE NoPos]

SinglyGetFirst(l) ==
  [status |-> "ok",
   ret |-> IF head[l] # NIL THEN createPosition(l, head[l]) ELSE NoPos]

SinglyGetLast(l) ==
  [status |-> "ok",
   ret |-> IF tail[l] # NIL THEN createPosition(l, tail[l]) ELSE NoPos]

\* Mutant: removeFirst forgets head.next = head.
SinglyRemoveFirst_NoDeprecation(l) ==
  IF head[l] = NIL THEN Throws("removeFirst", l, "EmptyContainer")
  ELSE LET h == head[l]
           newHead == next[h]
       IN /\ head' = [head EXCEPT ![l] = newHead]
          /\ tail' = IF newHead = NIL THEN [tail EXCEPT ![l] = NIL] ELSE tail
          /\ size' = [size EXCEPT ![l] = @ - 1]
          /\ result' = [Call("removeFirst", l) EXCEPT !.val = element[h]]
          /\ removed' = removed \cup {h}
          /\ UNCHANGED <<element, next, prev, held, walked, orphaned>>

SinglyRemoveFirst(l) ==
  IF head[l] = NIL THEN Throws("removeFirst", l, "EmptyContainer")
  ELSE LET h == head[l]
           newHead == next[h]
       IN /\ head' = [head EXCEPT ![l] = newHead]
          /\ tail' = IF newHead = NIL THEN [tail EXCEPT ![l] = NIL] ELSE tail
          /\ next' = [next EXCEPT ![h] = h]
          /\ size' = [size EXCEPT ![l] = @ - 1]
          /\ result' = [Call("removeFirst", l) EXCEPT !.val = element[h]]
          /\ removed' = removed \cup {h}
          /\ UNCHANGED <<element, prev, held, walked, orphaned>>

\* Mutant: replace returns the element it has just stored.
SinglyReplace_ReturnsNew(l, p, e) ==
  IF ~validate(l, p) THEN Throws("replace", l, "InvalidPosition")
  ELSE /\ element' = [element EXCEPT ![p.node] = e]
       /\ result' = [Call("replace", l) EXCEPT !.val = e]
       /\ UNCHANGED <<next, prev, head, tail, size, held, hist>>

SinglyReplace(l, p, e) ==
  IF ~validate(l, p) THEN Throws("replace", l, "InvalidPosition")
  ELSE /\ element' = [element EXCEPT ![p.node] = e]
       /\ result' = [Call("replace", l) EXCEPT !.val = element[p.node]]
       /\ UNCHANGED <<next, prev, head, tail, size, held, hist>>

\* [Symbol.iterator]: the elements yielded by a full iteration.
SinglyIterate(l) ==
  IF head[l] = NIL THEN <<>>
  ELSE [i \in 1..Len(Chain(l)) |-> element[Chain(l)[i]]]

----------------------------------------------------------------------------
\* DoublyLinkedList

\* Mutant: insertBetween forgets succ.prev = node.
insertBetweenOn_NoBackLink(s, l, e, pred, succ) ==
  LET node == NewNodeIn(s)
      next1 == [s.next EXCEPT ![node] = succ]
      prev1 == [s.prev EXCEPT ![node] = pred]
  IN [s EXCEPT
        !.element = [s.element EXCEPT ![node] = e],
        !.next = IF pred # NIL THEN [next1 EXCEPT ![pred] = node] ELSE next1,
        !.head = IF pred # NIL THEN s.head ELSE [s.head EXCEPT ![l] = node],
        !.prev = prev1,
        !.tail = IF succ # NIL THEN s.tail ELSE [s.tail EXCEPT ![l] = node],
        !.size = [s.size EXCEPT ![l] = @ + 1],
        !.held = s.held \cup {createPosition(l, node)}]

\* insertBetween as a function of the state it runs in.
insertBetweenOn(s, l, e, pred, succ) ==
  LET node == NewNodeIn(s)
      next1 == [s.next EXCEPT ![node] = succ]
      prev1 == [s.prev EXCEPT ![node] = pred]
  IN [s EXCEPT
        !.element = [s.element EXCEPT ![node] = e],
        !.next = IF pred # NIL THEN [next1 EXCEPT ![pred] = node] ELSE next1,
        !.head = IF pred # NIL THEN s.head ELSE [s.head EXCEPT ![l] = node],
        !.prev = IF succ # NIL THEN [prev1 EXCEPT ![succ] = node] ELSE prev1,
        !.tail = IF succ # NIL THEN s.tail ELSE [s.tail EXCEPT ![l] = node],
        !.size = [s.size EXCEPT ![l] = @ + 1],
        !.held = s.held \cup {createPosition(l, node)}]

\* An add method: insertBetween, then createPosition of the inserted node.
insertBetween(op, l, e, pred, succ) ==
  /\ HasFree
  /\ Becomes(insertBetweenOn(State, l, e, pred, succ))
  /\ result' = Call(op, l)
  /\ UNCHANGED hist

DoublyAddAfter(l, p, e) ==
  IF ~validate(l, p) THEN Throws("addAfter", l, "InvalidPosition")
  ELSE insertBetween("addAfter", l, e, p.node, next[p.node])

\* Mutant: addBefore uses the position's node without validating it.
DoublyAddBefore_NoValidate(l, p, e) ==
  insertBetween("addBefore", l, e, prev[p.node], p.node)

\* Mutant: addBefore splices the new node after the position's node.
DoublyAddBefore_InsertsAfter(l, p, e) ==
  IF ~validate(l, p) THEN Throws("addBefore", l, "InvalidPosition")
  ELSE insertBetween("addBefore", l, e, p.node, next[p.node])

DoublyAddBefore(l, p, e) ==
  IF ~validate(l, p) THEN Throws("addBefore", l, "InvalidPosition")
  ELSE insertBetween("addBefore", l, e, prev[p.node], p.node)

DoublyAddFirst(l, e) == insertBetween("addFirst", l, e, NIL, head[l])

\* Mutant: addLast inserts at the head.
DoublyAddLastOn_AtHead(s, l, e) == insertBetweenOn(s, l, e, NIL, s.head[l])

DoublyAddLastOn(s, l, e) == insertBetweenOn(s, l, e, s.tail[l], NIL)

DoublyAddLast(l, e) == insertBetween("addLast", l, e, tail[l], NIL)

RECURSIVE DoublyAddAll(_, _, _)
DoublyAddAll(s, l, arr) ==
  IF arr = <<>> THEN s
  ELSE DoublyAddAll(DoublyAddLastOn(s, l, Head(arr)), l, Tail(arr))

\* new DoublyLinkedList(arr): the first thing that happens to instance l.
DoublyConstruct(l, arr) ==
  /\ PositionsIn(l) = {}
  /\ Len(arr) <= Cardinality(Nodes \ Allocated)
  /\ Becomes(DoublyAddAll(State, l, arr))
  /\ result' = [Call("construct", l) EXCEPT !.arr = arr]
  /\ UNCHANGED hist

\* Mutant: clear(false) deprecates the head node only.
DoublyClear_HeadOnly(l, instant) ==
  /\ Terminates(l)
  /\ next' = IF ~instant /\ head[l] # NIL
             THEN [next EXCEPT ![head[l]] = head[l]]
             ELSE next
  /\ tail' = [tail EXCEPT ![l] = NIL]
  /\ head' = [head EXCEPT ![l] = NIL]
  /\ size' = [size EXCEPT ![l] = 0]
  /\ result' = Call(IF instant THEN "clearInstant" ELSE "clear", l)
  /\ walked' = IF instant \/ head[l] = NIL THEN walked
                ELSE walked \cup ChainSet(l)
  /\ orphaned' = IF instant THEN orphaned \cup PositionsIn(l) ELSE orphaned
  /\ UNCHANGED <<element, prev, held, removed>>

DoublyClear(l, instant) ==
  /\ Terminates(l)
  /\ next' = IF ~instant /\ head[l] # NIL
             THEN [n \in Nodes |-> IF n \in ChainSet(l) THEN n ELSE next[n]]
             ELSE next
  /\ tail' = [tail EXCEPT ![l] = NIL]
  /\ head' = [head EXCEPT ![l] = NIL]
  /\ size' = [size EXCEPT ![l] = 0]
  /\ result' = Call(IF instant THEN "clearInstant" ELSE "clear", l)
  /\ walked' = IF instant \/ head[l] = NIL THEN walked
                ELSE walked \cup ChainSet(l)
  /\ orphaned' = IF instant THEN orphaned \cup PositionsIn(l) ELSE orphaned
  /\ UNCHANGED <<element, prev, held, removed>>

\* Mutant: deleteNode forgets this.size--.
deleteNode_NoCount(op, l, node) ==
  LET pred == prev[node]
      succ == next[node]
      next1 == IF pred # NIL THEN [next EXCEPT ![pred] = succ] ELSE next
      prev1 == IF succ # NIL THEN [prev EXCEPT ![succ] = pred] ELSE prev
  IN /\ next' = [next1 EXCEPT ![node] = node]
     /\ prev' = [prev1 EXCEPT ![node] = node]
     /\ head' = IF pred # NIL THEN head ELSE [head EXCEPT ![l] = succ]
     /\ tail' = IF succ # NIL THEN tail ELSE [tail EXCEPT ![l] = pred]
     /\ result' = [Call(op, l) EXCEPT !.val = element[node]]
     /\ removed' = removed \cup {node}
     /\ UNCHANGED <<element, size, held, walked, orphaned>>

\* deleteNode, called by delete, removeFirst and removeLast (op: the caller).
\* Mutant: deleteNode leaves the predecessor's next on the removed node.
deleteNode_KeepsPredLink(op, l, node) ==
  LET pred == prev[node]
      succ == next[node]
      prev1 == IF succ # NIL THEN [prev EXCEPT ![succ] = pred] ELSE prev
  IN /\ next' = [next EXCEPT ![node] = node]
     /\ prev' = [prev1 EXCEPT ![node] = node]
     /\ head' = IF pred # NIL THEN head ELSE [head EXCEPT ![l] = succ]
     /\ tail' = IF succ # NIL THEN tail ELSE [tail EXCEPT ![l] = pred]
     /\ size' = [size EXCEPT ![l] = @ - 1]
     /\ result' = [Call(op, l) EXCEPT !.val = element[node]]
     /\ removed' = removed \cup {node}
     /\ UNCHANGED <<element, held, walked, orphaned>>

deleteNode(op, l, node) ==
  LET pred == prev[node]
      succ == next[node]
      next1 == IF pred # NIL THEN [next EXCEPT ![pred] = succ] ELSE next
      prev1 == IF succ # NIL THEN [prev EXCEPT ![succ] = pred] ELSE prev
  IN /\ next' = [next1 EXCEPT ![node] = node]
     /\ prev' = [prev1 EXCEPT ![node] = node]
     /\ head' = IF pred # NIL THEN head ELSE [head EXCEPT ![l] = succ]
     /\ tail' = IF succ # NIL THEN tail ELSE [tail EXCEPT ![l] = pred]
     /\ size' = [size EXCEPT ![l] = @ - 1]
     /\ result' = [Call(op, l) EXCEPT !.val = element[node]]
     /\ removed' = removed \cup {node}
     /\ UNCHANGED <<element, held, walked, orphaned>>

DoublyDelete(l, p) ==
  IF ~validate(l, p) THEN Throws("delete", l, "InvalidPosition")
  ELSE deleteNode("delete", l, p.node)

DoublyGetAfter(l, p) ==
  IF ~validate(l, p) THEN [status |-> "InvalidPosition", ret |-> NoPos]
  ELSE LET nxt == next[p.node]
       IN [status |-> "ok",
           ret |-> IF nxt # NIL THEN createPosition(l, nxt) ELSE NoPos]

DoublyGetBefore(l, p) ==
  IF ~validate(l, p) THEN [status |-> "InvalidPosition", ret |-> NoPos]
  ELSE LET prv == prev[p.node]
       IN [status |-> "ok",
           ret |-> IF prv # NIL THEN createPosition(l, prv) ELSE NoPos]

DoublyGetFirst(l) ==
  [status |-> "ok",
   ret |-> IF head[l] # NIL THEN createPosition(l, head[l]) ELSE NoPos]

DoublyGetLast(l) ==
  [status |-> "ok",
   ret |-> IF tail[l] # NIL THEN createPosition(l, tail[l]) ELSE NoPos]

DoublyRemoveFirst(l) ==
  IF head[l] = NIL THEN Throws("removeFirst", l, "EmptyContainer")
  ELSE deleteNode("removeFirst", l, head[l])

DoublyRemoveLast(l) ==
  IF tail[l] = NIL THEN Throws("removeLast", l, "EmptyContainer")
  ELSE deleteNode("removeLast", l, tail[l])

DoublyReplace(l, p, e) ==
  IF ~validate(l, p) THEN Throws("replace", l, "InvalidPosition")
  ELSE /\ element' = [element EXCEPT ![p.node] = e]
       /\ result' = [Call("replace", l) EXCEPT !.val = element[p.node]]
       /\ UNCHANGED <<next, prev, head, tail, size, held, hist>>

\* [Symbol.iterator]: the elements yielded by a full iteration.
DoublyIterate(l) ==
  IF head[l] = NIL THEN <<>>
  ELSE [i \in 1..Len(Chain(l)) |-> element[Chain(l)[i]]]

Iterate(l) == IF l \in SinglyLists THEN SinglyIterate(l) ELSE DoublyIterate(l)

----------------------------------------------------------------------------
\* The program: the caller's calls of the public methods.

----------------------------------------------------------------------------
\* [Symbol.iterator] taken step by step (the same generator in both
\* classes): other calls may run while it is suspended at its yield.

listVars == <<element, next, prev, head, tail, size, held, result,
              removed, walked, orphaned>>

\* list[Symbol.iterator](): a generator that has not run yet.  A run
\* iterates one list, any number of times.
IteratorNew(l) ==
  /\ iterator.list \in {"none", l}
  /\ iterator' = [list |-> l, node |-> NIL, state |-> "start", yields |-> 0]
  /\ UNCHANGED <<listVars, quickSelect, trees>>

\* next() on the generator: from the start, node = this.head; resumed after
\* a yield, node = node.next; then it yields node.element while node is
\* present and returns otherwise.  yields counts the elements the consumer
\* received; a consumer stops asking after MaxNodes + 1 of them.
IteratorNext ==
  /\ iterator.state \in {"start", "suspended"}
  /\ iterator.yields <= MaxNodes
  /\ LET node == IF iterator.state = "start" THEN head[iterator.list]
                 ELSE next[iterator.node]
     IN iterator' = IF node = NIL
                    THEN [iterator EXCEPT !.node = NIL, !.state = "done"]
                    ELSE [iterator EXCEPT !.node = node, !.state = "suspended",
                                          !.yields = @ + 1]
  /\ UNCHANGED <<listVars, quickSelect, trees>>

----------------------------------------------------------------------------
\* quickSelect (src/src/searches/quick-select.ts)

\* Longest array handed to quickSelect.
MaxLen == 3
\* The items of the arrays.
Items == 0..3
ItemArrays == UNION {[1..k -> Items] : k \in 0..MaxLen}
\* The absent value (undefined) where an item is expected.
NoItem == -1

\* The comparators passed in: compareAsNumbers, and one that orders the
\* items by their halves, so that 0 and 1 (and 2 and 3) compare EQUAL.
Comparators == {"asNumbers", "byHalves"}
Key(c, x) == IF c = "asNumbers" THEN x ELSE x \div 2
compare(c, a, b) ==
  IF Key(c, a) < Key(c, b) THEN "LESS"
  ELSE IF Key(c, a) > Key(c, b) THEN "GREATER"
  ELSE "EQUAL"

\* No call of quickSelect was made.
\* rounds counts the passes through the while loop's body.
NoSelect == [pc |-> "idle", arr |-> <<>>, n |-> 0, compare |-> "asNumbers",
             arr_ |-> <<>>, n_ |-> 0, out |-> NoItem, rounds |-> 0]

\* _arr.forEach with the switch on compare(item, pivot): the items of a
\* that compare to pivot as r, in the order of a.
Part(c, a, pivot, r) ==
  LET Keep(item) == compare(c, item, pivot) = r
  IN SelectSeq(a, Keep)

\* Mutant: the rank is taken zero-based.
quickSelectCall_ZeroBased(arr, n, c) ==
  /\ quickSelect.pc = "idle"
  /\ quickSelect' =
       IF Len(arr) = 0 \/ n < 0 \/ n >= Len(arr)
       THEN [NoSelect EXCEPT !.pc = "thrown", !.arr = arr, !.n = n,
                             !.compare = c]
       ELSE [NoSelect EXCEPT !.pc = "loop", !.arr = arr, !.n = n,
                             !.compare = c, !.arr_ = arr, !.n_ = n]

\* Mutant: the bounds check lets n = arr.length through.
quickSelectCall_AllowsLength(arr, n, c) ==
  /\ quickSelect.pc = "idle"
  /\ quickSelect' =
       IF Len(arr) = 0 \/ n < 0 \/ n > Len(arr)
       THEN [NoSelect EXCEPT !.pc = "thrown", !.arr = arr, !.n = n,
                             !.compare = c]
       ELSE [NoSelect EXCEPT !.pc = "loop", !.arr = arr, !.n = n,
                             !.compare = c, !.arr_ = arr, !.n_ = n + 1]

\* quickSelect(arr, n, compare) up to its loop: the two throws, or
\* _arr = arr and _n = n + 1.
quickSelectCall(arr, n, c) ==
  /\ quickSelect.pc = "idle"
  /\ quickSelect' =
       IF Len(arr) = 0 \/ n < 0 \/ n >= Len(arr)
       THEN [NoSelect EXCEPT !.pc = "thrown", !.arr = arr, !.n = n,
                             !.compare = c]
       ELSE [NoSelect EXCEPT !.pc = "loop", !.arr = arr, !.n = n,
                             !.compare = c, !.arr_ = arr, !.n_ = n + 1]

\* Mutant: the items equal to the pivot stay in the sub-array of the
\* greater ones.
quickSelectRound_KeepsEqual ==
  /\ quickSelect.pc = "loop"
  /\ Len(quickSelect.arr_) > 1
  /\ quickSelect.rounds <= MaxLen
  /\ \E i \in 1..Len(quickSelect.arr_) :
       LET pivot == quickSelect.arr_[i]
           less == Part(quickSelect.compare, quickSelect.arr_, pivot, "LESS")
           equal == Part(quickSelect.compare, quickSelect.arr_, pivot, "EQUAL")
           greater == Part(quickSelect.compare, quickSelect.arr_, pivot, "GREATER")
       IN quickSelect' =
            IF quickSelect.n_ <= Len(less)
            THEN [quickSelect EXCEPT !.arr_ = less, !.rounds = @ + 1]
            ELSE IF quickSelect.n_ <= Len(less) + 1
            THEN [quickSelect EXCEPT !.pc = "returned", !.out = pivot,
                                     !.rounds = @ + 1]
            ELSE [quickSelect EXCEPT
                    !.arr_ = equal \o greater,
                    !.n_ = @ - Len(less),
                    !.rounds = @ + 1]

\* One round of the while loop, with the pivot at any index
\* (Math.floor(Math.random() * _arr.length)).  The count of rounds is kept
\* within MaxLen + 1.
quickSelectRound ==
  /\ quickSelect.pc = "loop"
  /\ Len(quickSelect.arr_) > 1
  /\ quickSelect.rounds <= MaxLen
  /\ \E i \in 1..Len(quickSelect.arr_) :
       LET pivot == quickSelect.arr_[i]
           less == Part(quickSelect.compare, quickSelect.arr_, pivot, "LESS")
           equal == Part(quickSelect.compare, quickSelect.arr_, pivot, "EQUAL")
           greater == Part(quickSelect.compare, quickSelect.arr_, pivot, "GREATER")
       IN quickSelect' =
            IF quickSelect.n_ <= Len(less)
            THEN [quickSelect EXCEPT !.arr_ = less, !.rounds = @ + 1]
            ELSE IF quickSelect.n_ <= Len(less) + Len(equal)
            THEN [quickSelect EXCEPT !.pc = "returned", !.out = pivot,
                                     !.rounds = @ + 1]
            ELSE [quickSelect EXCEPT
                    !.arr_ = greater,
                    !.n_ = @ - (Len(less) + Len(equal)),
                    !.rounds = @ + 1]

\* The loop ends with _arr.length <= 1: return _arr[0] (undefined when
\* _arr is empty).
quickSelectReturn ==
  /\ quickSelect.pc = "loop"
  /\ Len(quickSelect.arr_) <= 1
  /\ quickSelect' =
       [quickSelect EXCEPT
          !.pc = "returned",
          !.out = IF Len(quickSelect.arr_) = 0 THEN NoItem
                  ELSE quickSelect.arr_[1]]

----------------------------------------------------------------------------
\* Binary tree (the contract of src/src/trees/binary-tree.class.ts, with
\* linked nodes behind the positions) and PreorderTreeTraversal

\* Number of tree nodes that may be allocated in one run.
MaxTreeNodes == 4
TreeNodes == 1..MaxTreeNodes
\* 0 marks a node not yet allocated.
NoTreeElem == 0

\* A tree without nodes: no root, size 0.
EmptyTree ==
  [root |-> NIL, size |-> 0,
   element |-> [n \in TreeNodes |-> NoTreeElem],
   parent |-> [n \in TreeNodes |-> NIL],
   left |-> [n \in TreeNodes |-> NIL],
   right |-> [n \in TreeNodes |-> NIL]]

\* Result of the last call on a tree: the method, the position passed in,
\* the outcome, the returned element and what the callback was called with.
NoTreeCall == [op |-> "new", pos |-> NIL, status |-> "ok",
               val |-> NoTreeElem, visits |-> <<>>]
TreeCalled(op, p) == [NoTreeCall EXCEPT !.op = op, !.pos = p]

TreeHasFree(t) == \E n \in TreeNodes : t.element[n] = NoTreeElem
NewTreeNode(t) ==
  CHOOSE n \in TreeNodes :
    /\ t.element[n] = NoTreeElem
    /\ \A m \in TreeNodes : m < n => t.element[m] # NoTreeElem

\* The positions handed out so far: one per node ever added.
TreePositions(t) == {n \in TreeNodes : t.element[n] # NoTreeElem}
\* The elements the caller adds to a tree are 1, 2, 3, ... in this order
\* (no method of the trees looks at the elements).
TreeElems(t) == {Cardinality(TreePositions(t)) + 1}
\* A removed node is deprecated: its parent link points at itself.
TreeIsDeprecated(t, n) == t.parent[n] = n
\* validate(position) returns the node; TRUE when it does not throw.
TreeValidate(t, p) == ~TreeIsDeprecated(t, p)

\* A call on the binary tree that throws.
TreeThrows(op, p, kind) ==
  /\ treeCall' = [TreeCalled(op, p) EXCEPT !.status = kind]
  /\ UNCHANGED tree

addRoot(e) ==
  IF tree.root # NIL THEN TreeThrows("addRoot", NIL, "NotEmpty")
  ELSE LET n == NewTreeNode(tree)
       IN /\ TreeHasFree(tree)
          /\ tree' = [tree EXCEPT !.root = n, !.size = 1, !.element[n] = e]
          /\ treeCall' = TreeCalled("addRoot", NIL)

addLeft(p, e) ==
  IF ~TreeValidate(tree, p) THEN TreeThrows("addLeft", p, "InvalidPosition")
  ELSE IF tree.left[p] # NIL THEN TreeThrows("addLeft", p, "SlotOccupied")
  ELSE LET n == NewTreeNode(tree)
       IN /\ TreeHasFree(tree)
          /\ tree' = [tree EXCEPT !.size = @ + 1, !.element[n] = e,
                                  !.parent[n] = p, !.left[p] = n]
          /\ treeCall' = TreeCalled("addLeft", p)

addRight(p, e) ==
  IF ~TreeValidate(tree, p) THEN TreeThrows("addRight", p, "InvalidPosition")
  ELSE IF tree.right[p] # NIL THEN TreeThrows("addRight", p, "SlotOccupied")
  ELSE LET n == NewTreeNode(tree)
       IN /\ TreeHasFree(tree)
          /\ tree' = [tree EXCEPT !.size = @ + 1, !.element[n] = e,
                                  !.parent[n] = p, !.right[p] = n]
          /\ treeCall' = TreeCalled("addRight", p)

\* Mutant: the sole child always goes into the parent's left slot.
SplicedOut_AlwaysLeft(t, p) ==
  LET child == IF t.left[p] # NIL THEN t.left[p] ELSE t.right[p]
      par == t.parent[p]
      parent1 == IF child # NIL THEN [t.parent EXCEPT ![child] = par]
                 ELSE t.parent
  IN [t EXCEPT
        !.root = IF p = t.root THEN child ELSE @,
        !.left = IF par # NIL THEN [@ EXCEPT ![par] = child] ELSE @,
        !.parent = [parent1 EXCEPT ![p] = p],
        !.size = @ - 1]

\* The tree after node p, which has at most one child, is spliced out: its
\* sole child takes its slot under its parent (or becomes the root), and p
\* is deprecated.
SplicedOut(t, p) ==
  LET child == IF t.left[p] # NIL THEN t.left[p] ELSE t.right[p]
      par == t.parent[p]
      parent1 == IF child # NIL THEN [t.parent EXCEPT ![child] = par]
                 ELSE t.parent
  IN [t EXCEPT
        !.root = IF p = t.root THEN child ELSE @,
        !.left = IF par # NIL /\ t.left[par] = p
                 THEN [@ EXCEPT ![par] = child] ELSE @,
        !.right = IF par # NIL /\ t.left[par] # p
                  THEN [@ EXCEPT ![par] = child] ELSE @,
        !.parent = [parent1 EXCEPT ![p] = p],
        !.size = @ - 1]

remove(p) ==
  IF ~TreeValidate(tree, p) THEN TreeThrows("remove", p, "InvalidPosition")
  ELSE IF tree.left[p] # NIL /\ tree.right[p] # NIL
  THEN TreeThrows("remove", p, "TooManyChildren")
  ELSE /\ tree' = SplicedOut(tree, p)
       /\ treeCall' = [TreeCalled("remove", p) EXCEPT !.val = tree.element[p]]

\* What one traversal call has done so far: the callback's invocations and
\* the number of Traversables the tree created for it.
NoVisits == [visits |-> <<>>, created |-> 0]

\* A Traversable for node n: its index is its number among the Traversables
\* of this traversal call, from 0; creating it counts it.
NewTraversable(n, st) == [node |-> n, index |-> st.created]
Counted(st) == [st EXCEPT !.created = @ + 1]

\* this.callback(traversable.element, { index: traversable.index },
\*               traversable.getPosition, traversable.tree)
callback(t, traversable, st) ==
  [st EXCEPT !.visits = Append(@, [element |-> t.element[traversable.node],
                                   index |-> traversable.index,
                                   position |-> traversable.node])]

\* Mutant: the right subtree is traversed before the left one.
RECURSIVE traverseBinary_RightFirst(_, _, _)
traverseBinary_RightFirst(t, traversable, st) ==
  LET st1 == callback(t, traversable, st)
      rightChild == t.right[traversable.node]
      st2 == IF rightChild # NIL
             THEN traverseBinary_RightFirst(t, NewTraversable(rightChild, st1),
                                            Counted(st1))
             ELSE st1
      leftChild == t.left[traversable.node]
      st3 == IF leftChild # NIL
             THEN traverseBinary_RightFirst(t, NewTraversable(leftChild, st2),
                                            Counted(st2))
             ELSE st2
  IN st3

\* Mutant: the callback is invoked after the left subtree was traversed.
RECURSIVE traverseBinary_VisitsAfterLeft(_, _, _)
traverseBinary_VisitsAfterLeft(t, traversable, st) ==
  LET leftChild == t.left[traversable.node]
      st1 == IF leftChild # NIL
             THEN traverseBinary_VisitsAfterLeft(
                    t, NewTraversable(leftChild, st), Counted(st))
             ELSE st
      st2 == callback(t, traversable, st1)
      rightChild == t.right[traversable.node]
      st3 == IF rightChild # NIL
             THEN traverseBinary_VisitsAfterLeft(
                    t, NewTraversable(rightChild, st2), Counted(st2))
             ELSE st2
  IN st3

RECURSIVE traverseBinary(_, _, _)
traverseBinary(t, traversable, st) ==
  LET st1 == callback(t, traversable, st)
      leftChild == t.left[traversable.node]
      st2 == IF leftChild # NIL
             THEN traverseBinary(t, NewTraversable(leftChild, st1), Counted(st1))
             ELSE st1
      rightChild == t.right[traversable.node]
      st3 == IF rightChild # NIL
             THEN traverseBinary(t, NewTraversable(rightChild, st2), Counted(st2))
             ELSE st2
  IN st3

\* A preorder traversal of the subtree at position p of the binary tree.
TraverseBinary(p) ==
  IF ~TreeValidate(tree, p) THEN TreeThrows("traverseBinary", p, "InvalidPosition")
  ELSE /\ treeCall' =
            [TreeCalled("traverseBinary", p) EXCEPT
               !.visits = traverseBinary(tree, NewTraversable(p, NoVisits),
                                         Counted(NoVisits)).visits]
       /\ UNCHANGED tree

\* A preorder traversal of a binary tree that has no root: no Traversable,
\* no callback.
TraverseEmptyBinary ==
  /\ tree.root = NIL
  /\ treeCall' = TreeCalled("traverseBinary", NIL)
  /\ UNCHANGED tree

----------------------------------------------------------------------------
\* General tree: every node has an ordered sequence of children, in the
\* order they were added.

\* Element values stored in the general tree.
GeneralElems == 1..2

EmptyGeneralTree ==
  [root |-> NIL, size |-> 0,
   element |-> [n \in TreeNodes |-> NoTreeElem],
   parent |-> [n \in TreeNodes |-> NIL],
   children |-> [n \in TreeNodes |-> <<>>]]

GeneralAddRoot(e) ==
  IF generalTree.root # NIL
  THEN /\ treeCall' = [TreeCalled("addRoot", NIL) EXCEPT !.status = "NotEmpty"]
       /\ UNCHANGED generalTree
  ELSE LET n == NewTreeNode(generalTree)
       IN /\ TreeHasFree(generalTree)
          /\ generalTree' = [generalTree EXCEPT !.root = n, !.size = 1,
                                                !.element[n] = e]
          /\ treeCall' = TreeCalled("addRoot", NIL)

GeneralAddChild(p, e) ==
  LET n == NewTreeNode(generalTree)
  IN /\ TreeHasFree(generalTree)
     /\ generalTree' = [generalTree EXCEPT
                          !.size = @ + 1, !.element[n] = e, !.parent[n] = p,
                          !.children[p] = Append(@, n)]
     /\ treeCall' = TreeCalled("addChild", p)

RECURSIVE traverseGeneral(_, _, _)
RECURSIVE traverseChildren(_, _, _)
\* for (const child of traversable.getChildren()) this.traverseGeneral(child)
traverseChildren(t, children, st) ==
  IF children = <<>> THEN st
  ELSE traverseChildren(t, Tail(children),
         traverseGeneral(t, NewTraversable(Head(children), st), Counted(st)))

\* Mutant: the node's callback is invoked after its children's subtrees.
traverseGeneral_VisitsLast(t, traversable, st) ==
  callback(t, traversable,
           traverseChildren(t, t.children[traversable.node], st))

traverseGeneral(t, traversable, st) ==
  traverseChildren(t, t.children[traversable.node],
                   callback(t, traversable, st))

\* A preorder traversal of the subtree at position p of the general tree.
TraverseGeneral(p) ==
  /\ treeCall' =
       [TreeCalled("traverseGeneral", p) EXCEPT
          !.visits = traverseGeneral(generalTree, NewTraversable(p, NoVisits),
                                     Counted(NoVisits)).visits]
  /\ UNCHANGED generalTree

----------------------------------------------------------------------------
\* The calls a run is made of

Arrays == UNION {[1..k -> Elems] : k \in 0..MaxArr}

Init ==
  /\ element = [n \in Nodes |-> NoElem]
  /\ next = [n \in Nodes |-> NIL]
  /\ prev = [n \in Nodes |-> NIL]
  /\ head = [l \in Lists |-> NIL]
  /\ tail = [l \in Lists |-> NIL]
  /\ size = [l \in Lists |-> 0]
  /\ held = {}
  /\ result = NoResult
  /\ removed = {}
  /\ walked = {}
  /\ orphaned = {}
  /\ iterator = NoIterator
  /\ quickSelect = NoSelect
  /\ tree = EmptyTree
  /\ generalTree = EmptyGeneralTree
  /\ treeCall = NoTreeCall

\* The calls, with the elements and arrays passed in drawn from E and A.
SinglyAdd(E, A) ==
  \E l \in SinglyLists :
    \/ \E e \in E : SinglyAddFirst(l, e) /\ UNCHANGED rest
    \/ \E e \in E : SinglyAddLast(l, e) /\ UNCHANGED rest
    \/ \E e \in E, p \in held : SinglyAddAfter(l, p, e) /\ UNCHANGED rest
    \/ \E arr \in A : SinglyConstruct(l, arr) /\ UNCHANGED rest

SinglyRemove ==
  \E l \in SinglyLists : SinglyRemoveFirst(l) /\ UNCHANGED rest

SinglyReplaceCall(E) ==
  \E l \in SinglyLists, p \in held, e \in E :
    SinglyReplace(l, p, e) /\ UNCHANGED rest

SinglyClearCall ==
  \E l \in SinglyLists, instant \in BOOLEAN :
    SinglyClear(l, instant) /\ UNCHANGED rest

DoublyAdd(E, A) ==
  \E l \in DoublyLists :
    \/ \E e \in E : DoublyAddFirst(l, e) /\ UNCHANGED rest
    \/ \E e \in E : DoublyAddLast(l, e) /\ UNCHANGED rest
    \/ \E e \in E, p \in held : DoublyAddAfter(l, p, e) /\ UNCHANGED rest
    \/ \E e \in E, p \in held : DoublyAddBefore(l, p, e) /\ UNCHANGED rest
    \/ \E arr \in A : DoublyConstruct(l, arr) /\ UNCHANGED rest

DoublyRemove ==
  \E l \in DoublyLists :
    \/ DoublyRemoveFirst(l) /\ UNCHANGED rest
    \/ DoublyRemoveLast(l) /\ UNCHANGED rest
    \/ \E p \in held : DoublyDelete(l, p) /\ UNCHANGED rest

DoublyReplaceCall(E) ==
  \E l \in DoublyLists, p \in held, e \in E :
    DoublyReplace(l, p, e) /\ UNCHANGED rest

DoublyClearCall ==
  \E l \in DoublyLists, instant \in BOOLEAN :
    DoublyClear(l, instant) /\ UNCHANGED rest

\* Any call of any public method on any list, with any position held.
Next ==
  \/ SinglyAdd(Elems, Arrays)
  \/ SinglyRemove
  \/ SinglyReplaceCall(Elems)
  \/ SinglyClearCall
  \/ DoublyAdd(Elems, Arrays)
  \/ DoublyRemove
  \/ DoublyReplaceCall(Elems)
  \/ DoublyClearCall

Spec == Init /\ [][Next]_vars

\* The same lists when clear is never called.
NextNoClear ==
  \/ SinglyAdd(Elems, Arrays)
  \/ SinglyRemove
  \/ SinglyReplaceCall(Elems)
  \/ DoublyAdd(Elems, Arrays)
  \/ DoublyRemove
  \/ DoublyReplaceCall(Elems)

SpecNoClear == Init /\ [][NextNoClear]_vars

\* The same calls when every element passed in is the same value: no method
\* of the lists looks at the elements, so the links, head, tail, size and
\* the positions go through the same states.
OneElem == {"a"}
OneElemArrays == UNION {[1..k -> OneElem] : k \in 0..MaxArr}

NextShape ==
  \/ SinglyAdd(OneElem, OneElemArrays)
  \/ SinglyRemove
  \/ SinglyReplaceCall(OneElem)
  \/ SinglyClearCall
  \/ DoublyAdd(OneElem, OneElemArrays)
  \/ DoublyRemove
  \/ DoublyReplaceCall(OneElem)
  \/ DoublyClearCall

SpecShape == Init /\ [][NextShape]_vars

\* The same lists when clear is only ever called in its default mode,
\* clear() = clear(false).
SinglyClearDefault ==
  \E l \in SinglyLists : SinglyClear(l, FALSE) /\ UNCHANGED rest
DoublyClearDefault ==
  \E l \in DoublyLists : DoublyClear(l, FALSE) /\ UNCHANGED rest

NextDefaultClear ==
  \/ SinglyAdd(Elems, Arrays)
  \/ SinglyRemove
  \/ SinglyReplaceCall(Elems)
  \/ SinglyClearDefault
  \/ DoublyAdd(Elems, Arrays)
  \/ DoublyRemove
  \/ DoublyReplaceCall(Elems)
  \/ DoublyClearDefault

SpecDefaultClear == Init /\ [][NextDefaultClear]_vars

\* The steps of an iteration, interleaved with calls that add to and
\* remove from the list being iterated.
\* A call on the list being iterated.
Iterating(l) == iterator.list = l /\ UNCHANGED rest

SinglyDuringIteration ==
  \E l \in SinglyLists :
    \/ \E e \in OneElem : Iterating(l) /\ SinglyAddFirst(l, e)
    \/ \E e \in OneElem : Iterating(l) /\ SinglyAddLast(l, e)
    \/ \E e \in OneElem, p \in held : Iterating(l) /\ SinglyAddAfter(l, p, e)
    \/ Iterating(l) /\ SinglyRemoveFirst(l)
    \/ Iterating(l) /\ SinglyClear(l, FALSE)

DoublyDuringIteration ==
  \E l \in DoublyLists :
    \/ \E e \in OneElem : Iterating(l) /\ DoublyAddFirst(l, e)
    \/ \E e \in OneElem : Iterating(l) /\ DoublyAddLast(l, e)
    \/ \E e \in OneElem, p \in held : Iterating(l) /\ DoublyAddAfter(l, p, e)
    \/ \E e \in OneElem, p \in held : Iterating(l) /\ DoublyAddBefore(l, p, e)
    \/ Iterating(l) /\ DoublyRemoveFirst(l)
    \/ Iterating(l) /\ DoublyRemoveLast(l)
    \/ \E p \in held : Iterating(l) /\ DoublyDelete(l, p)
    \/ Iterating(l) /\ DoublyClear(l, FALSE)

NextIteration ==
  \/ SinglyDuringIteration
  \/ DoublyDuringIteration
  \/ \E l \in Lists : IteratorNew(l)
  \/ IteratorNext

SpecIteration == Init /\ [][NextIteration]_vars

\* Calls of quickSelect on every array, rank and comparator, each run to
\* its end under every choice of pivots.
NextSelect ==
  \/ \E arr \in ItemArrays, n \in -1..(MaxLen + 1), c \in Comparators :
       quickSelectCall(arr, n, c) /\ UNCHANGED <<listVars, iterator, trees>>
  \/ quickSelectRound /\ UNCHANGED <<listVars, iterator, trees>>
  \/ quickSelectReturn /\ UNCHANGED <<listVars, iterator, trees>>

SpecSelect == Init /\ [][NextSelect]_vars

\* The same calls when a call that was started keeps running: the loop
\* takes its next round, and returns once it has ended.
SpecSelectRuns ==
  /\ Init /\ [][NextSelect]_vars
  /\ WF_vars(quickSelectRound /\ UNCHANGED <<listVars, iterator, trees>>)
  /\ WF_vars(quickSelectReturn /\ UNCHANGED <<listVars, iterator, trees>>)

\* A run works on one tree, the binary or the general one, and leaves
\* everything else alone.
OnBinaryTree ==
  /\ generalTree = EmptyGeneralTree
  /\ UNCHANGED <<listVars, iterator, quickSelect, generalTree>>
OnGeneralTree ==
  /\ tree = EmptyTree
  /\ UNCHANGED <<listVars, iterator, quickSelect, tree>>

\* Calls on the binary tree, with every position handed out so far, and
\* preorder traversals of its subtrees.
NextBinaryTree ==
  \/ \E e \in TreeElems(tree) : OnBinaryTree /\ addRoot(e)
  \/ \E p \in TreePositions(tree), e \in TreeElems(tree) :
       OnBinaryTree /\ addLeft(p, e)
  \/ \E p \in TreePositions(tree), e \in TreeElems(tree) :
       OnBinaryTree /\ addRight(p, e)
  \/ \E p \in TreePositions(tree) : OnBinaryTree /\ remove(p)
  \/ \E p \in TreePositions(tree) : OnBinaryTree /\ TraverseBinary(p)
  \/ OnBinaryTree /\ TraverseEmptyBinary

\* Calls that build the general tree, and preorder traversals of its
\* subtrees.
NextGeneralTree ==
  \/ \E e \in GeneralElems : OnGeneralTree /\ GeneralAddRoot(e)
  \/ \E p \in TreePositions(generalTree), e \in GeneralElems :
       OnGeneralTree /\ GeneralAddChild(p, e)
  \/ \E p \in TreePositions(generalTree) :
       OnGeneralTree /\ TraverseGeneral(p)

NextTrees == NextBinaryTree \/ NextGeneralTree

SpecTrees == Init /\ [][NextTrees]_vars

----------------------------------------------------------------------------
\* Vocabulary of the properties

\* The state-changing methods that take a position.
PositionOps == {"addAfter", "addBefore", "delete", "replace"}

\* The step is a call of a state-changing method of list l with position p
\* (such a call records its method and list in result).
PositionCall(l, p) ==
  /\ result'.list = l
  /\ result'.op \in PositionOps
  /\ IF l \in SinglyLists
     THEN \E e \in Elems : SinglyAddAfter(l, p, e) \/ SinglyReplace(l, p, e)
     ELSE \/ \E e \in Elems : \/ DoublyAddAfter(l, p, e)
                               \/ DoublyAddBefore(l, p, e)
                               \/ DoublyReplace(l, p, e)
          \/ DoublyDelete(l, p)

\* The read-only methods of list l that take position p all throw
\* InvalidPosition.
ReadsReject(l, p) ==
  IF l \in SinglyLists
  THEN SinglyGetAfter(l, p).status = "InvalidPosition"
  ELSE /\ DoublyGetAfter(l, p).status = "InvalidPosition"
       /\ DoublyGetBefore(l, p).status = "InvalidPosition"

\* The read-only methods of list l that take position p all return.
ReadsAccept(l, p) ==
  IF l \in SinglyLists
  THEN SinglyGetAfter(l, p).status = "ok"
  ELSE /\ DoublyGetAfter(l, p).status = "ok"
       /\ DoublyGetBefore(l, p).status = "ok"

\* Position p is rejected by every method of every list that takes one:
\* the read-only ones now, the state-changing ones in the step being taken.
Rejected(p) == \A l \in Lists : ReadsReject(l, p)
RejectedInStep(p) ==
  \/ result'.status = "InvalidPosition"
  \/ \A l \in Lists : ~PositionCall(l, p)

\* The nodes met from the list's tail along prev.
BackChain(l) == Walk(prev, tail[l], MaxNodes + 1)
BackChainSet(l) == {BackChain(l)[i] : i \in 1..Len(BackChain(l))}

GetFirst(l) == IF l \in SinglyLists THEN SinglyGetFirst(l) ELSE DoublyGetFirst(l)
GetLast(l) == IF l \in SinglyLists THEN SinglyGetLast(l) ELSE DoublyGetLast(l)

----------------------------------------------------------------------------
\* C1: when clear is never called, in both list classes the size counter
\* equals the number of nodes reachable from head along next, and none of
\* these nodes is deprecated.
C1_SizeCountsLiveNodes ==
  \A l \in Lists :
    /\ Terminates(l)
    /\ size[l] = Len(Chain(l))
    /\ \A n \in ChainSet(l) : ~isDeprecated(l, n)

\* A doubly linked list of two elements left by a delete.
C1_Witness ==
  /\ result.op = "delete" /\ result.status = "ok"
  /\ size[result.list] = 2 /\ Len(Chain(result.list)) = 2

\* C2: once an element was removed by removeFirst, removeLast or delete,
\* every position referring to its node is rejected with InvalidPosition by
\* every method that takes a position, whatever ran in between; and a
\* removal leaves every position of another, not removed element accepted.
C2_RemovedRejectedOthersKept ==
  /\ [](\A p \in held : p.node \in removed => Rejected(p))
  /\ [][/\ \A p \in held : p.node \in removed => RejectedInStep(p)
        /\ removed' # removed =>
             \A q \in held :
               (q.node \notin removed' /\ ReadsAccept(q.container, q))
                 => ReadsAccept(q.container, q)']_vars

\* A call on a list was just rejected for a removed element's position (no
\* clear ran and every position is the list's own), while another element's
\* position is still accepted.
C2_Witness ==
  /\ result.status = "InvalidPosition"
  /\ removed # {} /\ walked = {} /\ orphaned = {}
  /\ \A p \in held : p.container = result.list
  /\ \E q \in held : q.node \notin removed /\ ReadsAccept(q.container, q)

\* C3: a position produced by one list is rejected with InvalidPosition by
\* every position-taking method of another list, also when its node is live
\* in its own list, and the rejecting call changes nothing.
C3_ForeignPositionRejected ==
  /\ [](\A l \in Lists : \A p \in held :
          p.container # l => ReadsReject(l, p))
  /\ [][\/ result'.status = "InvalidPosition" /\ UNCHANGED <<heap, held>>
        \/ \A l \in Lists : \A p \in held :
             p.container # l => ~PositionCall(l, p)]_vars

\* A call was just rejected although no position is deprecated: the position
\* belonged to the other list, where its node is live.
C3_Witness ==
  /\ result.status = "InvalidPosition"
  /\ \E p \in held : p.container # result.list
                     /\ ReadsAccept(p.container, p)
                     /\ p.node \in ChainSet(p.container)
  /\ \A p \in held : ReadsAccept(p.container, p)

\* C4: a call that fails (EmptyContainer or InvalidPosition) leaves the
\* lists as they were: head, tail, size, every element and every link.
C4_FailedCallChangesNothing ==
  [][result'.status # "ok" => UNCHANGED <<element, next, prev, head, tail, size>>]_vars

\* A call just failed on a list that holds elements.
C4_Witness ==
  /\ result.status = "InvalidPosition"
  /\ size[result.list] = 2 /\ Len(Chain(result.list)) = 2

\* C5: in a DoublyLinkedList every node reachable from head satisfies
\* node.next.prev = node and node.prev.next = node; head has no prev and
\* tail has no next.
C5_DoublyLinkedSymmetry ==
  \A l \in DoublyLists :
    /\ \A n \in ChainSet(l) :
         /\ next[n] # NIL => prev[next[n]] = n
         /\ prev[n] # NIL => next[prev[n]] = n
    /\ head[l] # NIL => prev[head[l]] = NIL
    /\ tail[l] # NIL => next[tail[l]] = NIL

\* Three linked nodes, the last one added by addBefore in the middle.
C5_Witness ==
  /\ result.op = "addBefore" /\ result.status = "ok"
  /\ Len(Chain(result.list)) = 3
  /\ Chain(result.list)[2] = MaxNodes

\* C6: in every reachable state of either list class, head and tail are both
\* absent if size is zero and both present otherwise.
C6_HeadTailAbsentIffEmpty ==
  \A l \in Lists :
    IF size[l] = 0 THEN head[l] = NIL /\ tail[l] = NIL
    ELSE head[l] # NIL /\ tail[l] # NIL

\* The list is empty to every observer.
Emptied(l) ==
  /\ size[l] = 0
  /\ GetFirst(l).ret = NoPos /\ GetLast(l).ret = NoPos
  /\ Iterate(l) = <<>>

\* The last call was clear(false) and left its list empty, if it was one.
ClearEmptied == result.op = "clear" => Emptied(result.list)

C8_InstantClearOrphansNodes ==
  /\ result.op = "clearInstant" =>
       /\ size[result.list] = 0
       /\ head[result.list] = NIL /\ tail[result.list] = NIL
       /\ \A p \in PositionsIn(result.list) :
            p.node \notin removed \cup walked => ReadsAccept(result.list, p)
  /\ \A p \in orphaned :
       p.node \notin ChainSet(p.container) \cup BackChainSet(p.container)

\* C9: on an empty list getFirst and getLast return the absent value and
\* removeFirst and removeLast throw (a removal that returned found size > 0);
\* when size is greater than zero getFirst and getLast return a position.
C9_EmptyListLaw ==
  /\ \A l \in Lists :
       /\ size[l] = 0 => GetFirst(l).ret = NoPos /\ GetLast(l).ret = NoPos
       /\ size[l] > 0 => GetFirst(l).ret # NoPos /\ GetLast(l).ret # NoPos
  /\ result.op \in {"removeFirst", "removeLast"} =>
       IF result.status = "ok" THEN size[result.list] >= 0
       ELSE result.status = "EmptyContainer" /\ size[result.list] = 0

\* C10: a list constructed from an array yields under iteration exactly
\* the array's elements in the array's order (nothing for the empty array).
C10_ConstructThenIterate ==
  result.op = "construct" => Iterate(result.list) = result.arr

\* A doubly linked list was constructed from two different elements.
C10_Witness ==
  /\ result.op = "construct" /\ result.list \in DoublyLists
  /\ result.arr = <<"a", "b">>

\* The step is replace(p, e) called on list l.
ReplaceCall(l, p, e) ==
  IF l \in SinglyLists THEN SinglyReplace(l, p, e) ELSE DoublyReplace(l, p, e)

\* C11: replace(position, element) on a valid position returns the element
\* stored there before and changes nothing else: head, tail, size, every
\* next/prev link and the elements of all other nodes stay as they were,
\* and every position that was valid before the call is valid after it.
C11_ReplaceChangesOnlyTheElement ==
  [][result'.op = "replace" =>
       \A l \in Lists : \A p \in held : \A e \in Elems :
         (validate(l, p) /\ ReplaceCall(l, p, e)) =>
           /\ result'.status = "ok"
           /\ result'.val = element[p.node]
           /\ element'[p.node] = e
           /\ \A n \in Nodes \ {p.node} : element'[n] = element[n]
           /\ UNCHANGED <<next, prev, head, tail, size>>
           /\ \A q \in held : \A k \in Lists :
                /\ validate(k, q) => validate(k, q)'
                /\ ReadsAccept(k, q) => ReadsAccept(k, q)']_vars

\* A replace on a list of two elements stored "b" where "a" was and
\* returned "a".
C11_Witness ==
  /\ result.op = "replace" /\ result.status = "ok" /\ result.val = "a"
  /\ size[result.list] = 2 /\ Len(Chain(result.list)) = 2
  /\ \A i \in 1..2 : element[Chain(result.list)[i]] = "b"

\* C12: in every state reached by add, remove and clear calls, iterating a
\* list ends: the next links from head reach an absent next (no cycle), the
\* iterator yields exactly size elements, those of the nodes from head to
\* tail in order.
C12_IterationYieldsSizeElements ==
  \A l \in Lists :
    /\ Terminates(l)
    /\ Len(Iterate(l)) = size[l]
    /\ Iterate(l) = [i \in 1..Len(Chain(l)) |-> element[Chain(l)[i]]]
    /\ head[l] # NIL => Chain(l)[Len(Chain(l))] = tail[l]

\* The abstract sequence operations.
InsertAt(s, i, e) == SubSeq(s, 1, i - 1) \o <<e>> \o SubSeq(s, i, Len(s))
RemoveAt(s, i) == SubSeq(s, 1, i - 1) \o SubSeq(s, i + 1, Len(s))
\* The place in the iteration of list l of the element position p refers to.
IndexOf(l, p) == CHOOSE i \in 1..Len(Chain(l)) : Chain(l)[i] = p.node

\* C19: each successful call on a DoublyLinkedList acts on the sequence its
\* iteration yields as the same operation acts on a plain sequence:
\* addFirst and addLast put e at the front and at the back, addAfter and
\* addBefore put e right after and right before the element p refers to,
\* removeFirst, removeLast and delete take out exactly that element and
\* return it, replace overwrites it and returns the old one.
C19_DoublyRefinesSequence ==
  [][\A l \in DoublyLists :
       (result'.list = l /\ result'.status = "ok") =>
         LET s == Iterate(l)
             op == result'.op
         IN /\ op = "addFirst" =>
                 \A e \in Elems :
                   DoublyAddFirst(l, e) => Iterate(l)' = <<e>> \o s
            /\ op = "addLast" =>
                 \A e \in Elems :
                   DoublyAddLast(l, e) => Iterate(l)' = Append(s, e)
            /\ op = "addAfter" =>
                 \A p \in held : \A e \in Elems :
                   DoublyAddAfter(l, p, e) =>
                     /\ p.node \in ChainSet(l)
                     /\ Iterate(l)' = InsertAt(s, IndexOf(l, p) + 1, e)
            /\ op = "addBefore" =>
                 \A p \in held : \A e \in Elems :
                   DoublyAddBefore(l, p, e) =>
                     /\ p.node \in ChainSet(l)
                     /\ Iterate(l)' = InsertAt(s, IndexOf(l, p), e)
            /\ op = "removeFirst" =>
                 (DoublyRemoveFirst(l) =>
                    /\ s # <<>>
                    /\ Iterate(l)' = Tail(s)
                    /\ result'.val = Head(s))
            /\ op = "removeLast" =>
                 (DoublyRemoveLast(l) =>
                    /\ s # <<>>
                    /\ Iterate(l)' = SubSeq(s, 1, Len(s) - 1)
                    /\ result'.val = s[Len(s)])
            /\ op = "delete" =>
                 \A p \in held :
                   DoublyDelete(l, p) =>
                     /\ p.node \in ChainSet(l)
                     /\ Iterate(l)' = RemoveAt(s, IndexOf(l, p))
                     /\ result'.val = s[IndexOf(l, p)]
            /\ op = "replace" =>
                 \A p \in held : \A e \in Elems :
                   DoublyReplace(l, p, e) =>
                     /\ p.node \in ChainSet(l)
                     /\ Iterate(l)' = [s EXCEPT ![IndexOf(l, p)] = e]
                     /\ result'.val = s[IndexOf(l, p)]]_vars

\* addBefore has just put "b" between "a" and "a".
C19_Witness ==
  /\ result.op = "addBefore" /\ result.status = "ok"
  /\ result.list \in DoublyLists
  /\ Iterate(result.list) = <<"a", "b", "a">>
  /\ Chain(result.list)[2] = MaxNodes

\* The generator is suspended at its yield on a node that is deprecated.
OnDeprecated ==
  /\ iterator.state = "suspended"
  /\ isDeprecated(iterator.list, iterator.node)

\* C20, as claimed: whatever removeFirst, removeLast, delete or clear(false)
\* did between the steps of an iteration, no step of the iterator follows a
\* deprecated node's self-link.
C20_IteratorNeverFollowsSelfLink ==
  [][IteratorNext => ~OnDeprecated]_vars

\* C20, amended: the iterator never moves from a node onto a deprecated
\* one.  It stands on a deprecated node only when that node was removed (by
\* removeFirst, removeLast, delete or clear(false)) while the iterator was
\* suspended on it, and then every further step follows the self-link,
\* yields the same node again and does not end the iteration.
C20_SelfLinkOnlyUnderTheIterator ==
  /\ [](OnDeprecated => iterator.node \in removed \cup walked)
  /\ [][IteratorNext =>
          /\ OnDeprecated' =>
               (iterator.state = "suspended" /\ iterator'.node = iterator.node)
          /\ OnDeprecated =>
               (iterator'.state = "suspended" /\ iterator'.node = iterator.node)
          /\ ~OnDeprecated =>
               (iterator'.node # iterator.node \/ iterator'.state = "done")]_vars

\* The iterator has yielded more elements than there are nodes: it stands
\* on a node that delete removed under it and has followed its self-link.
C20_Witness ==
  /\ OnDeprecated /\ iterator.yields = MaxNodes + 1
  /\ iterator.node \in removed
  /\ result.op = "delete" /\ result.status = "ok"

----------------------------------------------------------------------------
\* Properties of quickSelect

\* Array a sorted ascending under comparator c (insertion sort).
InsertSorted(c, s, x) ==
  LET i == CHOOSE k \in 0..Len(s) :
             /\ \A j \in 1..k : compare(c, s[j], x) # "GREATER"
             /\ k < Len(s) => compare(c, s[k + 1], x) = "GREATER"
  IN SubSeq(s, 1, i) \o <<x>> \o SubSeq(s, i + 1, Len(s))

RECURSIVE SortedAscending(_, _)
SortedAscending(c, a) ==
  IF a = <<>> THEN <<>>
  ELSE InsertSorted(c, SortedAscending(c, SubSeq(a, 1, Len(a) - 1)), a[Len(a)])

\* The arguments are the ones quickSelect rejects.
OutOfBounds ==
  \/ Len(quickSelect.arr) = 0
  \/ quickSelect.n < 0
  \/ quickSelect.n >= Len(quickSelect.arr)

\* C16: whatever pivots were chosen, the item quickSelect returns for a
\* non-empty array and 0 <= n < arr.length compares EQUAL to the item at
\* index n of the array sorted ascending under compare.
C16_ReturnsNthSmallest ==
  quickSelect.pc = "returned" =>
    compare(quickSelect.compare, quickSelect.out,
            SortedAscending(quickSelect.compare, quickSelect.arr)[quickSelect.n + 1])
      = "EQUAL"

\* The second smallest of [3, 1, 2] was returned as the pivot of a second
\* round, on the sub-array [3, 2].
C16_Witness ==
  /\ quickSelect.pc = "returned" /\ quickSelect.compare = "asNumbers"
  /\ quickSelect.arr = <<3, 1, 2>> /\ quickSelect.n = 1
  /\ quickSelect.arr_ = <<3, 2>> /\ quickSelect.out = 2

\* C17: quickSelect throws, having selected nothing, when the array is
\* empty or n < 0 or n >= arr.length; on every other input it does not
\* throw, and what it returns is an item of the array.
C17_ThrowsExactlyOutOfBounds ==
  quickSelect.pc # "idle" =>
    IF OutOfBounds
    THEN /\ quickSelect.pc = "thrown"
         /\ quickSelect.out = NoItem /\ quickSelect.arr_ = <<>>
    ELSE /\ quickSelect.pc # "thrown"
         /\ quickSelect.pc = "returned" =>
              \E i \in 1..Len(quickSelect.arr) :
                quickSelect.arr[i] = quickSelect.out

\* A call with n = arr.length on an array of two items threw.
C17_Witness ==
  /\ quickSelect.pc = "thrown"
  /\ Len(quickSelect.arr) = 2 /\ quickSelect.n = 2

----------------------------------------------------------------------------
\* Properties of the trees and of the preorder traversal

\* Node n and its ancestors, met by following parent.
UpFrom(t, n) ==
  LET up == Walk(t.parent, n, MaxTreeNodes)
  IN {up[i] : i \in 1..Len(up)}
\* The nodes of the subtree at node n (none when n is absent).
Subtree(t, n) ==
  {m \in TreePositions(t) : ~TreeIsDeprecated(t, m) /\ n \in UpFrom(t, m)}

\* The callback invocations of the last traversal call.
Visits == treeCall.visits
VisitedPositions == {Visits[i].position : i \in 1..Len(Visits)}
\* The number of the callback invocation made for node n.
VisitOf(n) == CHOOSE i \in 1..Len(Visits) : Visits[i].position = n

\* Each node of the subtree at p of tree t got exactly one callback
\* invocation, with its own element.
VisitedOnce(t, p) ==
  /\ VisitedPositions = Subtree(t, p)
  /\ Len(Visits) = Cardinality(Subtree(t, p))
  /\ \A i \in 1..Len(Visits) :
       Visits[i].element = t.element[Visits[i].position]

\* The tree built by addRoot(1), addLeft(root, 2), addRight(root, 3),
\* addLeft(pos(2), 4).
ExampleTree ==
  [root |-> 1, size |-> 4,
   element |-> [n \in TreeNodes |-> IF n <= 4 THEN n ELSE NoTreeElem],
   parent |-> [n \in TreeNodes |->
                 IF n \in {2, 3} THEN 1 ELSE IF n = 4 THEN 2 ELSE NIL],
   left |-> [n \in TreeNodes |-> IF n = 1 THEN 2 ELSE IF n = 2 THEN 4 ELSE NIL],
   right |-> [n \in TreeNodes |-> IF n = 1 THEN 3 ELSE NIL]]

\* C13: traverseBinary invokes the callback exactly once for every node of
\* the subtree it is given, each node before every node of its left and of
\* its right subtree and every node of its left subtree before every node
\* of its right subtree; on the example tree the elements come in the
\* order 1, 2, 4, 3.
C13_PreorderBinary ==
  (treeCall.op = "traverseBinary" /\ treeCall.status = "ok"
     /\ treeCall.pos # NIL) =>
    /\ VisitedOnce(tree, treeCall.pos)
    /\ \A n \in Subtree(tree, treeCall.pos) :
         /\ \A m \in Subtree(tree, tree.left[n]) : VisitOf(n) < VisitOf(m)
         /\ \A m \in Subtree(tree, tree.right[n]) : VisitOf(n) < VisitOf(m)
         /\ \A m \in Subtree(tree, tree.left[n]) :
              \A k \in Subtree(tree, tree.right[n]) : VisitOf(m) < VisitOf(k)
    /\ (tree = ExampleTree /\ treeCall.pos = tree.root) =>
         [i \in 1..Len(Visits) |-> Visits[i].element] = <<1, 2, 4, 3>>

\* The example tree was traversed from its root.
C13_Witness ==
  /\ treeCall.op = "traverseBinary" /\ treeCall.status = "ok"
  /\ tree = ExampleTree /\ treeCall.pos = 1 /\ Len(Visits) = 4

\* C14: the index a preorder traversal passes to the callback numbers the
\* invocations of that traversal call from 0, in a binary and in a general
\* tree, whatever traversals were made before.
C14_IndexNumbersVisits ==
  treeCall.op \in {"traverseBinary", "traverseGeneral"} =>
    \A k \in 1..Len(Visits) : Visits[k].index = k - 1

\* A traversal of a subtree of three nodes that is not the whole tree.
C14_Witness ==
  /\ treeCall.op = "traverseBinary" /\ treeCall.status = "ok"
  /\ treeCall.pos # tree.root /\ Len(Visits) = 3
  /\ tree.left[treeCall.pos] # NIL /\ tree.right[treeCall.pos] # NIL

\* C15: traverseGeneral invokes the callback exactly once per node of the
\* subtree it is given: for a node before any node below it, and for the
\* whole subtree of one child before any node of the subtree of a child
\* that comes later in getChildren().
C15_PreorderGeneral ==
  treeCall.op = "traverseGeneral" =>
    /\ VisitedOnce(generalTree, treeCall.pos)
    /\ \A n \in Subtree(generalTree, treeCall.pos) :
         LET children == generalTree.children[n]
         IN /\ \A m \in Subtree(generalTree, n) \ {n} : VisitOf(n) < VisitOf(m)
            /\ \A i, j \in 1..Len(children) :
                 i < j =>
                   \A m \in Subtree(generalTree, children[i]) :
                     \A k \in Subtree(generalTree, children[j]) :
                       VisitOf(m) < VisitOf(k)

\* The root has two children and the first of them has a child of its own:
\* the traversal went below the first child before it came to the second.
C15_Witness ==
  /\ treeCall.op = "traverseGeneral" /\ treeCall.pos = generalTree.root
  /\ Len(generalTree.children[generalTree.root]) = 2
  /\ Len(generalTree.children[generalTree.children[generalTree.root][1]]) = 1
  /\ Len(Visits) = 4


\* The sole child of node p in tree t (NIL when p is a leaf).
SoleChild(t, p) == IF t.left[p] # NIL THEN t.left[p] ELSE t.right[p]
\* The step is a call remove(p) on the binary tree.
RemoveCall(p) == treeCall'.op = "remove" /\ treeCall'.pos = p

\* C18: remove(position) on a binary-tree node with two children fails with
\* TooManyChildren and leaves the tree unchanged; on a node with at most
\* one child it returns the node's element, decreases size by 1, puts the
\* sole child (if any) into the removed node's former slot under its parent
\* and makes the position invalid.
C18_RemoveSplicesOrRefuses ==
  [][\A p \in TreeNodes :
       (RemoveCall(p) /\ TreeValidate(tree, p)) =>
         LET par == tree.parent[p]
             child == SoleChild(tree, p)
         IN IF tree.left[p] # NIL /\ tree.right[p] # NIL
            THEN treeCall'.status = "TooManyChildren" /\ tree' = tree
            ELSE /\ treeCall'.status = "ok"
                 /\ treeCall'.val = tree.element[p]
                 /\ tree'.size = tree.size - 1
                 /\ ~TreeValidate(tree', p)
                 /\ par = NIL => tree'.root = child
                 /\ (par # NIL /\ tree.left[par] = p) =>
                      /\ tree'.left[par] = child
                      /\ tree'.right[par] = tree.right[par]
                 /\ (par # NIL /\ tree.right[par] = p) =>
                      /\ tree'.right[par] = child
                      /\ tree'.left[par] = tree.left[par]
                 /\ child # NIL => tree'.parent[child] = par]_vars

\* The chain root(1)-left(2)-left(3) after remove(pos(2)): root.left is
\* pos(3) and the size went from 3 to 2.
C18_Witness ==
  /\ treeCall.op = "remove" /\ treeCall.pos = 2 /\ treeCall.status = "ok"
  /\ treeCall.val = 2
  /\ tree.root = 1 /\ tree.left[1] = 3 /\ tree.right[1] = NIL
  /\ tree.parent[3] = 1 /\ tree.size = 2 /\ TreeIsDeprecated(tree, 2)
  /\ tree.element[4] = NoTreeElem

----------------------------------------------------------------------------
\* Properties that the specification leaves implicit

\* tail of list l is the last node reachable from head, and has no next.
TailIsLast(l) ==
  /\ Terminates(l)
  /\ tail[l] = Chain(l)[Len(Chain(l))]
  /\ next[tail[l]] = NIL
\* The node getLast() refers to.
GetLastNode(l) == SinglyGetLast(l).ret.node

\* C21: when clear is never called, in a non-empty SinglyLinkedList tail is
\* the last node reachable from head and its next is absent; an addAfter
\* on the position of the last element moves tail to the new node, which
\* getLast then refers to, and an addLast links its node after the tail it
\* found.
C21_SinglyTailIsLast ==
  /\ [](\A l \in SinglyLists : size[l] > 0 => TailIsLast(l))
  /\ [][\A l \in SinglyLists :
          (result'.list = l /\ result'.status = "ok" /\ tail[l] # NIL) =>
            /\ (result'.op = "addAfter" /\ next'[tail[l]] # NIL) =>
                 /\ tail'[l] = next'[tail[l]]
                 /\ tail'[l] \notin Allocated
                 /\ GetLastNode(l)' = tail'[l]
            /\ result'.op = "addLast" =>
                 /\ next'[tail[l]] = tail'[l]
                 /\ tail'[l] \notin Allocated]_vars

\* An addAfter on the only element has just made its new node the tail:
\* nodes are created in increasing order and node 2 is the newest.
C21_Witness ==
  /\ result.op = "addAfter" /\ result.status = "ok"
  /\ result.list \in SinglyLists
  /\ Chain(result.list) = <<1, 2>> /\ tail[result.list] = 2
  /\ Allocated = {1, 2}


\* The operations the two list classes share, called on list l of either
\* class.
AddFirstCall(l, e) ==
  IF l \in SinglyLists THEN SinglyAddFirst(l, e) ELSE DoublyAddFirst(l, e)
AddLastCall(l, e) ==
  IF l \in SinglyLists THEN SinglyAddLast(l, e) ELSE DoublyAddLast(l, e)
AddAfterCall(l, p, e) ==
  IF l \in SinglyLists THEN SinglyAddAfter(l, p, e)
  ELSE DoublyAddAfter(l, p, e)
RemoveFirstCall(l) ==
  IF l \in SinglyLists THEN SinglyRemoveFirst(l) ELSE DoublyRemoveFirst(l)
ClearCall(l) ==
  IF l \in SinglyLists THEN SinglyClear(l, FALSE) ELSE DoublyClear(l, FALSE)
ConstructCall(l, arr) ==
  IF l \in SinglyLists THEN SinglyConstruct(l, arr)
  ELSE DoublyConstruct(l, arr)
GetAfter(l, p) ==
  IF l \in SinglyLists THEN SinglyGetAfter(l, p) ELSE DoublyGetAfter(l, p)

\* What a caller can tell about position p in list l: the place in the
\* iteration of the element it refers to, 0 when the list rejects it.
PlaceOf(l, p) ==
  IF validate(l, p) /\ p.node \in ChainSet(l) THEN IndexOf(l, p) ELSE 0

\* getFirst, getLast, getAfter and size of list l as functions of what the
\* iteration yields and of the places of the positions.
SharedReads(l) ==
  LET s == Iterate(l)
  IN /\ size[l] = Len(s)
     /\ \A p \in held : validate(l, p) => p.node \in ChainSet(l)
     /\ IF s = <<>> THEN GetFirst(l).ret = NoPos /\ GetLast(l).ret = NoPos
        ELSE /\ PlaceOf(l, GetFirst(l).ret) = 1
             /\ PlaceOf(l, GetLast(l).ret) = Len(s)
     /\ \A p \in held :
          LET r == GetAfter(l, p)
          IN IF PlaceOf(l, p) = 0 THEN r.status = "InvalidPosition"
             ELSE /\ r.status = "ok"
                  /\ IF PlaceOf(l, p) = Len(s) THEN r.ret = NoPos
                     ELSE PlaceOf(l, r.ret) = PlaceOf(l, p) + 1

\* The step leaves what can be observed of list l as it was.
SameView(l) ==
  /\ Iterate(l)' = Iterate(l)
  /\ held' = held
  /\ \A q \in held : PlaceOf(l, q)' = PlaceOf(l, q)
\* The step hands out one new position, for place i of list l.
NewPositionAt(l, i) ==
  /\ Cardinality(held' \ held) = 1
  /\ \A q \in held' \ held : q.container = l /\ PlaceOf(l, q)' = i

\* The step, a call on list l, is the call's effect on the sequence of
\* elements and on the places of the positions, whatever the class of l.
SharedStep(l) ==
  LET s == Iterate(l)
      op == result'.op
  IN /\ op = "addFirst" =>
          \A e \in Elems :
            AddFirstCall(l, e) =>
              /\ result'.status = "ok"
              /\ Iterate(l)' = <<e>> \o s
              /\ \A q \in held :
                   PlaceOf(l, q)' =
                     IF PlaceOf(l, q) > 0 THEN PlaceOf(l, q) + 1 ELSE 0
              /\ NewPositionAt(l, 1)
     /\ op = "addLast" =>
          \A e \in Elems :
            AddLastCall(l, e) =>
              /\ result'.status = "ok"
              /\ Iterate(l)' = Append(s, e)
              /\ \A q \in held : PlaceOf(l, q)' = PlaceOf(l, q)
              /\ NewPositionAt(l, Len(s) + 1)
     /\ op = "addAfter" =>
          \A e \in Elems : \A p \in held :
            AddAfterCall(l, p, e) =>
              IF PlaceOf(l, p) = 0
              THEN result'.status = "InvalidPosition" /\ SameView(l)
              ELSE /\ result'.status = "ok"
                   /\ Iterate(l)' = InsertAt(s, PlaceOf(l, p) + 1, e)
                   /\ \A q \in held :
                        PlaceOf(l, q)' =
                          IF PlaceOf(l, q) > PlaceOf(l, p)
                          THEN PlaceOf(l, q) + 1 ELSE PlaceOf(l, q)
                   /\ NewPositionAt(l, PlaceOf(l, p) + 1)
     /\ op = "removeFirst" =>
          (RemoveFirstCall(l) =>
             IF s = <<>>
             THEN result'.status = "EmptyContainer" /\ SameView(l)
             ELSE /\ result'.status = "ok"
                  /\ result'.val = Head(s)
                  /\ Iterate(l)' = Tail(s)
                  /\ held' = held
                  /\ \A q \in held :
                       PlaceOf(l, q)' =
                         IF PlaceOf(l, q) > 1 THEN PlaceOf(l, q) - 1 ELSE 0)
     /\ op = "replace" =>
          \A e \in Elems : \A p \in held :
            ReplaceCall(l, p, e) =>
              IF PlaceOf(l, p) = 0
              THEN result'.status = "InvalidPosition" /\ SameView(l)
              ELSE /\ result'.status = "ok"
                   /\ result'.val = s[PlaceOf(l, p)]
                   /\ Iterate(l)' = [s EXCEPT ![PlaceOf(l, p)] = e]
                   /\ held' = held
                   /\ \A q \in held : PlaceOf(l, q)' = PlaceOf(l, q)
     /\ op = "clear" =>
          (ClearCall(l) =>
             /\ result'.status = "ok"
             /\ Iterate(l)' = <<>>
             /\ held' = held
             /\ \A q \in held : PlaceOf(l, q)' = 0)
     /\ op = "construct" =>
          (ConstructCall(l, result'.arr) =>
             /\ result'.status = "ok"
             /\ Iterate(l)' = result'.arr
             /\ \A q \in held : PlaceOf(l, q)' = PlaceOf(l, q)
             /\ {PlaceOf(l, q)' : q \in held' \ held} = 1..Len(result'.arr)
             /\ Cardinality(held' \ held) = Len(result'.arr))

\* C22: when clear is only called in its default mode, every shared
\* operation (the constructor, addFirst, addLast, addAfter, removeFirst,
\* replace, clear) fails or succeeds, returns, and changes the iterated
\* sequence and the places of the positions as one function of the call, of
\* the sequence and of the places, the same for SinglyLinkedList and
\* DoublyLinkedList; and size, getFirst, getLast and getAfter are one
\* function of the sequence and the places in both.  Two lists of the two
\* classes driven by the same calls on corresponding positions therefore
\* cannot be told apart.
C22_SinglyAndDoublyObserveTheSame ==
  /\ [](\A l \in Lists : SharedReads(l))
  /\ [][\A l \in Lists : result'.list = l => SharedStep(l)]_vars

\* Either list got one element and was then cleared: both are empty, and
\* both reject the position they had handed out.
C22_Witness ==
  /\ result.op = "clear"
  /\ walked = {1, 2} /\ removed = {} /\ Allocated = {1, 2}
  /\ \A l \in Lists :
       /\ Cardinality(PositionsIn(l)) = 1
       /\ Iterate(l) = <<>> /\ size[l] = 0
       /\ \A p \in PositionsIn(l) : GetAfter(l, p).status = "InvalidPosition"


\* The step is a round of quickSelect's loop.
RoundTaken == quickSelect'.rounds = quickSelect.rounds + 1

\* C23: a call of quickSelect with valid arguments returns, whatever
\* pivots are chosen: while it runs _arr is not empty and
\* 1 <= _n <= _arr.length; every round either returns or goes on with a
\* strictly shorter, non-empty _arr, so that there are fewer rounds than
\* the array has items; and the array passed in stays as it was.
C23_SelectTerminates ==
  /\ [](/\ quickSelect.pc = "loop" =>
             /\ quickSelect.arr_ # <<>>
             /\ 1 <= quickSelect.n_
             /\ quickSelect.n_ <= Len(quickSelect.arr_)
             /\ quickSelect.rounds <= Len(quickSelect.arr) - Len(quickSelect.arr_)
        /\ quickSelect.pc = "returned" =>
             quickSelect.rounds < Len(quickSelect.arr))
  /\ [][/\ RoundTaken =>
             \/ quickSelect'.pc = "returned"
             \/ /\ quickSelect'.pc = "loop"
                /\ quickSelect'.arr_ # <<>>
                /\ Len(quickSelect'.arr_) < Len(quickSelect.arr_)
        /\ quickSelect.pc # "idle" => quickSelect'.arr = quickSelect.arr]_vars
  /\ (quickSelect.pc = "loop" ~> quickSelect.pc = "returned")

\* The third smallest of [1, 3, 2] is being selected: a round with pivot 1
\* went on with the sub-array [3, 2] of the greater items and _n = 2.
C23_Witness ==
  /\ quickSelect.pc = "loop" /\ quickSelect.compare = "asNumbers"
  /\ quickSelect.arr = <<1, 3, 2>> /\ quickSelect.n = 2
  /\ quickSelect.arr_ = <<3, 2>> /\ quickSelect.n_ = 2
  /\ quickSelect.rounds = 1

====
